---- MODULE Spec2Model ----
(***************************************************************************)
(* KPI report generator (src/app.py): the button handler that reads a lead *)
(* table, normalizes it, computes KPIs per (source, period) and stacks the *)
(* blocks into one report that is uploaded to a sheet.                     *)
(*                                                                         *)
(* Text is modelled as a sequence of one-character strings where the code  *)
(* looks inside it (source labels are sorted, period names are parsed);    *)
(* numbers that may be fractional are exact rationals [n, d] in lowest     *)
(* terms (binary floating point error is not modelled).                    *)
(***************************************************************************)
EXTENDS Integers, Sequences, FiniteSets, TLC

VARIABLES
    cols,                     \* column names of the uploaded table
    raw,                      \* rows of the uploaded table (pd.read_excel)
    pc,                       \* position in the button handler
    df,                       \* the table after data preparation
    sources_to_analyze,       \* segment keys, in iteration order
    src_i,                    \* index of the next segment to process
    monthly_kpis_for_source,  \* period name -> kpis, of the last segment processed
    df_periods,               \* period name -> df_period, of the last segment processed
    all_reports_list,         \* frames collected so far
    final_report,             \* rows of final_report_df, <<>> while not built
    sheet,                    \* what happened at the output worksheet
    outcome,                  \* the message the run ended with
    sub_df,                   \* argument of a direct calculate_kpis call
    kpis                      \* result of a direct calculate_kpis call

vars == <<cols, raw, pc, df, sources_to_analyze, src_i, monthly_kpis_for_source,
          df_periods, all_reports_list, final_report, sheet, outcome, sub_df, kpis>>

-----------------------------------------------------------------------------
(* Bounds *)

\* Largest number of rows of an uploaded table (and of a subset handed to
\* calculate_kpis directly).
MaxRows == 2

-----------------------------------------------------------------------------
(* Values *)

RECURSIVE GCD(_, _)
GCD(a, b) == IF b = 0 THEN a ELSE GCD(b, a % b)

\* A number n/d (n >= 0, d > 0), kept in lowest terms so that equal numbers are
\* equal values.
Rat(n, d) == LET g == GCD(n, d) IN [k |-> "num", n |-> n \div g, d |-> d \div g]
Whole(n)  == Rat(n, 1)
\* float('nan') / pd.NaT / a missing cell
NaN       == [k |-> "nan", n |-> 0, d |-> 1]
\* the empty string '' of a blank separator row
Blank     == [k |-> "str", n |-> 0, d |-> 1]

IsNum(v) == v.k = "num"
\* a > b on numbers
RatGreater(a, b) == a.n * b.d > b.n * a.d

\* Code points of the characters that occur in the modelled texts (Python
\* compares str by code point).
ord(c) ==
    CASE c = " " -> 32 [] c = "(" -> 40 [] c = ")" -> 41
      [] c = "0" -> 48 [] c = "1" -> 49 [] c = "2" -> 50 [] c = "3" -> 51
      [] c = "4" -> 52 [] c = "5" -> 53 [] c = "6" -> 54 [] c = "7" -> 55
      [] c = "8" -> 56 [] c = "9" -> 57
      [] c = "A" -> 65 [] c = "D" -> 68 [] c = "J" -> 74 [] c = "M" -> 77
      [] c = "O" -> 79 [] c = "T" -> 84 [] c = "W" -> 87
      [] c = "a" -> 97 [] c = "b" -> 98 [] c = "d" -> 100 [] c = "e" -> 101
      [] c = "h" -> 104 [] c = "i" -> 105 [] c = "l" -> 108 [] c = "n" -> 110
      [] c = "p" -> 112 [] c = "r" -> 114 [] c = "s" -> 115 [] c = "t" -> 116
      [] c = "u" -> 117 [] c = "v" -> 118 [] c = "y" -> 121
      [] OTHER -> 0

\* a < b on str: the first differing character decides, a proper prefix is
\* smaller.
RECURSIVE StrLess(_, _)
StrLess(a, b) ==
    IF b = <<>> THEN FALSE
    ELSE IF a = <<>> THEN TRUE
    ELSE IF Head(a) = Head(b) THEN StrLess(Tail(a), Tail(b))
    ELSE ord(Head(a)) < ord(Head(b))

\* len(s) >= len(p) and s[:len(p)] == p
StartsWith(s, p) == Len(s) >= Len(p) /\ SubSeq(s, 1, Len(p)) = p

\* str.find: the first index (from 1) where sub occurs in s, 0 if it does not.
Find(s, sub) ==
    LET hits == {i \in 1..(Len(s) + 1) : StartsWith(SubSeq(s, i, Len(s)), sub)}
    IN  IF hits = {} THEN 0 ELSE CHOOSE i \in hits : \A j \in hits : i <= j

\* sub in s
Contains(s, sub) == Find(s, sub) # 0

\* s.split(sep): the pieces of s between the occurrences of sep, left to right.
RECURSIVE Split(_, _)
Split(s, sep) ==
    LET i == Find(s, sep)
    IN  IF i = 0 THEN <<s>>
        ELSE <<SubSeq(s, 1, i - 1)>> \o Split(SubSeq(s, i + Len(sep), Len(s)), sep)

\* s.replace(old, ''): every occurrence of old removed, left to right.
RECURSIVE Remove(_, _)
Remove(s, old) ==
    LET i == Find(s, old)
    IN  IF i = 0 THEN s
        ELSE SubSeq(s, 1, i - 1) \o Remove(SubSeq(s, i + Len(old), Len(s)), old)

Digit(c) == ord(c) - 48

\* int(s) for a text of decimal digits.
RECURSIVE ParseInt(_)
ParseInt(s) ==
    IF s = <<>> THEN 0
    ELSE 10 * ParseInt(SubSeq(s, 1, Len(s) - 1)) + Digit(s[Len(s)])

-----------------------------------------------------------------------------
(* Configuration *)

\* The sentinel segment key 'Overall'.
Overall == <<"O", "v", "e", "r", "a", "l", "l">>

\* periods_to_analyze: period name -> month string, in insertion order. `name`
\* is the key as one string, `text` spells the same key character by character
\* for the code that looks inside it.
periods_to_analyze ==
    << [name |-> "April", text |-> <<"A", "p", "r", "i", "l">>,
        month_string |-> "2025-04"],
       [name |-> "May", text |-> <<"M", "a", "y">>,
        month_string |-> "2025-05"],
       [name |-> "June MTD (till 19th)",
        text |-> <<"J", "u", "n", "e", " ", "M", "T", "D", " ", "(", "t", "i",
                   "l", "l", " ", "1", "9", "t", "h", ")">>,
        month_string |-> "2025-06"] >>

PeriodNames == {periods_to_analyze[i].name : i \in DOMAIN periods_to_analyze}

\* The metric names, in the order calculate_kpis inserts them.
MetricNames ==
    << "# of Leads Created (Salesforce)",
       "# of Qualified leads",
       "% Qualified Leads of Leads Created",
       "# of Leads Attempted",
       "Attempt% of Qualified leads",
       "# of Leads Connected",
       "Connection % of Qualified Leads",
       "Time to First Attempt (P50) in hours",
       "Time to First Attempt (P90) in hours",
       "Time to First Connect (P50) in hours",
       "Time to First Connect (P90) in hours",
       "% Contri. of Leads Attempted after 24 hours",
       "% Contri. of Leads Contacted after 24 hours" >>

kpi_group_mapping(m) ==
    CASE m \in {"# of Leads Created (Salesforce)", "# of Qualified leads",
                "% Qualified Leads of Leads Created"} -> "Lead Vol"
      [] m \in {"# of Leads Attempted", "Attempt% of Qualified leads",
                "Time to First Attempt (P50) in hours",
                "Time to First Attempt (P90) in hours",
                "% Contri. of Leads Attempted after 24 hours"} -> "Lead Attempt"
      [] m \in {"# of Leads Connected", "Connection % of Qualified Leads",
                "Time to First Connect (P50) in hours",
                "Time to First Connect (P90) in hours",
                "% Contri. of Leads Contacted after 24 hours"} -> "Lead Connect"
      [] OTHER -> "nan"

\* The columns of the lead master file, under the names the file gives them.
RawColumns ==
    {"LeadCreateDateTime", "LeadCreateMonth", "Opportunity Source", "isQualified",
     "is Lead Called?", "is Lead Connected?", "TimeDiffLeadAttempt",
     "TimeDiffLeadConnect"}

\* df.rename(columns={...})
Rename(c) ==
    CASE c = "is Lead Called?" -> "is_Lead_Called"
      [] c = "is Lead Connected?" -> "is_Lead_Connected"
      [] c = "TimeDiffLeadAttempt" -> "TimeDiffLeadAttempt_hours"
      [] c = "TimeDiffLeadConnect" -> "TimeDiffLeadConnect_hours"
      [] OTHER -> c

Renamed(cs) == {Rename(c) : c \in cs}

-----------------------------------------------------------------------------
(* Cells and rows *)

\* A creation time as the file holds it: a date, or text that is no date.
Timestamp(y, m, d) == [k |-> "ts", y |-> y, m |-> m, d |-> d]
NotADate           == [k |-> "text", y |-> 0, m |-> 0, d |-> 0]
NaT                == [k |-> "nat", y |-> 0, m |-> 0, d |-> 0]

\* A text cell, or a missing one.
Txt(s) == [na |-> FALSE, s |-> s]
NA     == [na |-> TRUE, s |-> <<>>]

\* pd.to_datetime(x, errors='coerce')
to_datetime(x) == IF x.k = "ts" THEN x ELSE NaT

\* Series.astype(str) on one cell. A missing cell becomes the text 'nan'
\* (pandas before 3.0) or stays missing (pandas 3.0 and later); keeps_na says
\* which pandas runs the program.
astype_str(x, keeps_na) ==
    IF x.na /\ ~keeps_na THEN Txt(<<"n", "a", "n">>) ELSE x

\* Timestamp.strftime('%Y-%m')
strftime_Y_m(t) ==
    ToString(t.y) \o "-" \o (IF t.m < 10 THEN "0" ELSE "") \o ToString(t.m)

\* The rows of s at the indices idx, in their order.
RECURSIVE Pick(_, _)
Pick(s, idx) ==
    IF idx = {} THEN <<>>
    ELSE LET i == CHOOSE i \in idx : \A j \in idx : i <= j
         IN  <<s[i]>> \o Pick(s, idx \ {i})

\* s[mask] for a sequence mask of booleans as long as s: the rows of s whose
\* mask entry is true, in their order.
Where(s, mask) == Pick(s, {i \in DOMAIN s : mask[i]})

-----------------------------------------------------------------------------
(* Data preparation: src/app.py lines 86-96 *)

\* Lines 93-94 on one row: the parsed creation time is added and the period
\* label is coerced to text.
PrepareRow(r, keeps_na) ==
    [r EXCEPT !.LeadCreateMonth = astype_str(r.LeadCreateMonth, keeps_na)]
        @@ [LeadCreateDateTime_dt |-> to_datetime(r.LeadCreateDateTime)]

\* Line 95: df.dropna(subset=[...]) keeps a row when none of the three cells is
\* missing.
DropnaKeeps(r) ==
    /\ r.LeadCreateDateTime_dt # NaT
    /\ ~r.LeadCreateMonth.na
    /\ ~r.Opportunity_Source.na

Prepared(table, keeps_na) ==
    LET rows == [i \in DOMAIN table |-> PrepareRow(table[i], keeps_na)]
    IN  Where(rows, [i \in DOMAIN rows |-> DropnaKeeps(rows[i])])

\* The first column whose lookup raises KeyError in lines 93-95, "" if none.
PrepareRaises(columns) ==
    IF "LeadCreateDateTime" \notin columns THEN "LeadCreateDateTime"
    ELSE IF "LeadCreateMonth" \notin columns THEN "LeadCreateMonth"
    ELSE IF "Opportunity Source" \notin columns THEN "Opportunity Source"
    ELSE ""

-----------------------------------------------------------------------------
(* calculate_kpis: src/app.py lines 41-70 *)

\* The numbers of vals in ascending order.
RECURSIVE SortNums(_)
SortNums(vals) ==
    IF vals = <<>> THEN <<>>
    ELSE LET i == CHOOSE i \in DOMAIN vals :
                      \A j \in DOMAIN vals : ~RatGreater(vals[i], vals[j])
         IN  <<vals[i]>> \o SortNums(Pick(vals, DOMAIN vals \ {i}))

\* Series.dropna().quantile(qn/qd), pandas' default linear interpolation: with
\* the n values sorted, position (n-1)*q lies between two neighbours and the
\* result is interpolated between them; NaN when there is no value.
quantile(cells, qn, qd) ==
    LET vals == SortNums(Where(cells, [i \in DOMAIN cells |-> IsNum(cells[i])]))
        t    == (Len(vals) - 1) * qn
        lo   == t \div qd
        f    == t % qd
        a    == vals[lo + 1]
        b    == vals[IF f = 0 THEN lo + 1 ELSE lo + 2]
    IN  IF vals = <<>> THEN NaN
        ELSE Rat(a.n * (qd - f) * b.d + b.n * f * a.d, a.d * b.d * qd)

\* The first column whose lookup raises KeyError in the body of calculate_kpis
\* (lines 47, 52, 56, 60, 62), "" if none.
CalculateRaises(columns) ==
    IF "isQualified" \notin columns THEN "isQualified"
    ELSE IF "is_Lead_Called" \notin columns THEN "is_Lead_Called"
    ELSE IF "is_Lead_Connected" \notin columns THEN "is_Lead_Connected"
    ELSE IF "TimeDiffLeadAttempt_hours" \notin columns THEN "TimeDiffLeadAttempt_hours"
    ELSE IF "TimeDiffLeadConnect_hours" \notin columns THEN "TimeDiffLeadConnect_hours"
    ELSE ""

\* The hours threshold of the "after 24 hours" metrics (lines 66 and 68).
After24h == 24

IsQualified(r)  == r.isQualified = 1
IsCalled(r)     == r.is_Lead_Called = 1
IsConnected(r)  == r.is_Lead_Connected = 1
AttemptHours(r) == r.TimeDiffLeadAttempt_hours
ConnectHours(r) == r.TimeDiffLeadConnect_hours
\* AttemptLate with the threshold itself counted as late.
AttemptLateInclusive(r) ==
    IsNum(AttemptHours(r)) /\ ~RatGreater(Whole(After24h), AttemptHours(r))
AttemptLate(r)  == IsNum(AttemptHours(r)) /\ RatGreater(AttemptHours(r), Whole(After24h))
ConnectLate(r)  == IsNum(ConnectHours(r)) /\ RatGreater(ConnectHours(r), Whole(After24h))

\* The dict built by lines 45-69 for a non-empty sub_df, as the sequence of its
\* items in insertion order.
KpiItems(sub_df_) ==
    LET num_leads_created == Len(sub_df_)
        qualified_leads_df ==
            Where(sub_df_, [i \in DOMAIN sub_df_ |-> IsQualified(sub_df_[i])])
        num_qualified_leads == Len(qualified_leads_df)
        num_attempted_qualified ==
            Len(Where(qualified_leads_df,
                      [i \in DOMAIN qualified_leads_df |->
                          IsCalled(qualified_leads_df[i])]))
        num_connected_qualified ==
            Len(Where(qualified_leads_df,
                      [i \in DOMAIN qualified_leads_df |->
                          IsConnected(qualified_leads_df[i])]))
        total_attempted_df ==
            Where(sub_df_, [i \in DOMAIN sub_df_ |-> IsCalled(sub_df_[i])])
        total_connected_df ==
            Where(sub_df_, [i \in DOMAIN sub_df_ |-> IsConnected(sub_df_[i])])
        attempted_after_24h ==
            Len(Where(total_attempted_df,
                      [i \in DOMAIN total_attempted_df |->
                          AttemptLate(total_attempted_df[i])]))
        connected_after_24h ==
            Len(Where(total_connected_df,
                      [i \in DOMAIN total_connected_df |->
                          ConnectLate(total_connected_df[i])]))
        attempt_hours == [i \in DOMAIN sub_df_ |-> AttemptHours(sub_df_[i])]
        connect_hours == [i \in DOMAIN sub_df_ |-> ConnectHours(sub_df_[i])]
    IN  << [key |-> "# of Leads Created (Salesforce)", value |-> Whole(num_leads_created)],
           [key |-> "# of Qualified leads", value |-> Whole(num_qualified_leads)],
           [key |-> "% Qualified Leads of Leads Created",
            value |-> IF num_leads_created > 0
                      THEN Rat(num_qualified_leads * 100, num_leads_created)
                      ELSE Whole(0)],
           [key |-> "# of Leads Attempted", value |-> Whole(num_attempted_qualified)],
           [key |-> "Attempt% of Qualified leads",
            value |-> IF num_qualified_leads > 0
                      THEN Rat(num_attempted_qualified * 100, num_qualified_leads)
                      ELSE Whole(0)],
           [key |-> "# of Leads Connected", value |-> Whole(num_connected_qualified)],
           [key |-> "Connection % of Qualified Leads",
            value |-> IF num_qualified_leads > 0
                      THEN Rat(num_connected_qualified * 100, num_qualified_leads)
                      ELSE Whole(0)],
           [key |-> "Time to First Attempt (P50) in hours",
            value |-> quantile(attempt_hours, 50, 100)],
           [key |-> "Time to First Attempt (P90) in hours",
            value |-> quantile(attempt_hours, 90, 100)],
           [key |-> "Time to First Connect (P50) in hours",
            value |-> quantile(connect_hours, 50, 100)],
           [key |-> "Time to First Connect (P90) in hours",
            value |-> quantile(connect_hours, 90, 100)],
           [key |-> "% Contri. of Leads Attempted after 24 hours",
            value |-> IF total_attempted_df # <<>>
                      THEN Rat(attempted_after_24h * 100, Len(total_attempted_df))
                      ELSE Whole(0)],
           [key |-> "% Contri. of Leads Contacted after 24 hours",
            value |-> IF total_connected_df # <<>>
                      THEN Rat(connected_after_24h * 100, Len(total_connected_df))
                      ELSE Whole(0)] >>

\* calculate_kpis(sub_df) on a table with the given columns: `raised` names the
\* column of a KeyError ("" when the call returns) and `kpis` is the returned
\* dict, {} for an empty sub_df (line 43 returns before any column is read).
calculate_kpis(sub_df_, columns) ==
    IF sub_df_ = <<>> THEN [raised |-> "", kpis |-> <<>>]
    ELSE IF CalculateRaises(columns) # ""
         THEN [raised |-> CalculateRaises(columns), kpis |-> <<>>]
         ELSE [raised |-> "", kpis |-> KpiItems(sub_df_)]

\* d[key] for a dict d given as its items.
Get(d, key) == (CHOOSE i \in {d[j] : j \in DOMAIN d} : i.key = key).value

-----------------------------------------------------------------------------
(* Segment loop: src/app.py lines 110-132 *)

\* Series.unique(): the distinct values in order of first appearance.
RECURSIVE unique(_)
unique(s) ==
    IF s = <<>> THEN <<>>
    ELSE LET rest == unique(SubSeq(s, 1, Len(s) - 1))
             last == s[Len(s)]
         IN  IF \E i \in DOMAIN rest : rest[i] = last THEN rest
             ELSE Append(rest, last)

\* s with x inserted before the first element that is greater than x.
RECURSIVE Insert(_, _)
Insert(s, x) ==
    IF s = <<>> THEN <<x>>
    ELSE IF StrLess(x, Head(s)) THEN <<x>> \o s
    ELSE <<Head(s)>> \o Insert(Tail(s), x)

\* sorted(list of str): ascending, stable.
RECURSIVE sorted(_)
sorted(s) ==
    IF s = <<>> THEN <<>>
    ELSE Insert(sorted(SubSeq(s, 1, Len(s) - 1)), s[Len(s)])

SourceCell(r) == r.Opportunity_Source
NotNa(x)   == ~x.na
TextOf(x)  == x.s

\* SourcesToAnalyze without the call of sorted().
SourcesUnsorted(df_) ==
    LET cells  == unique([i \in DOMAIN df_ |-> SourceCell(df_[i])])
        labels == Where(cells, [i \in DOMAIN cells |-> NotNa(cells[i])])
    IN  <<Overall>> \o [i \in DOMAIN labels |-> TextOf(labels[i])]

\* Line 110.
SourcesToAnalyze(df_) ==
    LET cells  == unique([i \in DOMAIN df_ |-> SourceCell(df_[i])])
        labels == Where(cells, [i \in DOMAIN cells |-> NotNa(cells[i])])
    IN  <<Overall>> \o sorted([i \in DOMAIN labels |-> TextOf(labels[i])])

\* Line 114.
df_source(df_, source) ==
    LET Matches(r) == ~r.Opportunity_Source.na /\ r.Opportunity_Source.s = source
    IN  IF source # Overall THEN Where(df_, [i \in DOMAIN df_ |-> Matches(df_[i])]) ELSE df_

\* Line 117: the day of the month named after 'till ' in the period name.
day_limit(period_name) ==
    ParseInt(Remove(Remove(Remove(Remove(Remove(
        Split(period_name, <<"t", "i", "l", "l", " ">>)[2],
        <<"t", "h">>), <<"s", "t">>), <<"n", "d">>), <<"r", "d">>), <<")">>))

\* df_period with the cutoff day itself left out.
df_period_before_limit(df_source_, period) ==
    IF Contains(period.text, <<"M", "T", "D">>)
    THEN LET limit == day_limit(period.text)
             InPeriod(r) ==
                 /\ strftime_Y_m(r.LeadCreateDateTime_dt) = period.month_string
                 /\ r.LeadCreateDateTime_dt.d < limit
         IN  Where(df_source_, [i \in DOMAIN df_source_ |-> InPeriod(df_source_[i])])
    ELSE LET InMonth(r) ==
                 strftime_Y_m(r.LeadCreateDateTime_dt) = period.month_string
         IN  Where(df_source_, [i \in DOMAIN df_source_ |-> InMonth(df_source_[i])])

\* Lines 116-120.
df_period(df_source_, period) ==
    IF Contains(period.text, <<"M", "T", "D">>)
    THEN LET limit == day_limit(period.text)
             InPeriod(r) ==
                 /\ strftime_Y_m(r.LeadCreateDateTime_dt) = period.month_string
                 /\ r.LeadCreateDateTime_dt.d <= limit
         IN  Where(df_source_, [i \in DOMAIN df_source_ |-> InPeriod(df_source_[i])])
    ELSE LET InMonth(r) ==
                 strftime_Y_m(r.LeadCreateDateTime_dt) = period.month_string
         IN  Where(df_source_, [i \in DOMAIN df_source_ |-> InMonth(df_source_[i])])

\* Lines 113-121 for one segment: per period, in the order of
\* periods_to_analyze, the selected rows and the result of calculate_kpis.
SegmentResults(df_, source, columns) ==
    LET ds == df_source(df_, source)
    IN  [i \in DOMAIN periods_to_analyze |->
            LET dp == df_period(ds, periods_to_analyze[i])
            IN  [name |-> periods_to_analyze[i].name,
                 df_period |-> dp,
                 result |-> calculate_kpis(dp, columns)]]

\* filtered_results with the periods kept ordered by their names.
filtered_results_by_name(results) ==
    LET NonEmpty(x) == x.result.kpis # <<>>
        IsApril(x)  == x.name = "April"
        IsJune(x)   == x.name = "June MTD (till 19th)"
        IsMay(x)    == x.name = "May"
        kept        == Where(results, [i \in DOMAIN results |-> NonEmpty(results[i])])
    IN  Where(kept, [i \in DOMAIN kept |-> IsApril(kept[i])])
            \o Where(kept, [i \in DOMAIN kept |-> IsJune(kept[i])])
            \o Where(kept, [i \in DOMAIN kept |-> IsMay(kept[i])])

\* Line 122: the periods whose kpis dict is non-empty, in their order.
filtered_results(results) ==
    LET NonEmpty(x) == x.result.kpis # <<>>
    IN  Where(results, [i \in DOMAIN results |-> NonEmpty(results[i])])

\* Lines 124-126: one row per metric, one value column per period kept.
\* A frame is its value columns (in order) and its rows.
kpi_df(source, filtered) ==
    LET names == [i \in DOMAIN filtered |-> filtered[i].name]
        keys  == filtered[1].result.kpis
    IN  [columns |-> names,
         rows |-> [m \in DOMAIN keys |->
            [Source |-> source,
             Overall_Leads |-> kpi_group_mapping(keys[m].key),
             KPIs |-> keys[m].key,
             cells |-> [c \in {names[i] : i \in DOMAIN names} |->
                 Get((CHOOSE x \in {filtered[i] : i \in DOMAIN filtered} :
                          x.name = c).result.kpis, keys[m].key)]]]]

\* Line 128: one row of empty strings under the columns of the block.
blank_df(block) ==
    [columns |-> block.columns,
     rows |-> << [Source |-> <<>>, Overall_Leads |-> "", KPIs |-> "",
                  cells |-> [c \in {block.columns[i] : i \in DOMAIN block.columns}
                                |-> Blank]] >>]

\* SegmentFrames with the two separator rows appended for a skipped segment too.
SegmentFramesWithSeparators(source, results) ==
    LET filtered == filtered_results(results)
        nothing  == [columns |-> <<>>, rows |-> <<>>]
    IN  IF filtered = <<>> THEN <<blank_df(nothing), blank_df(nothing)>>
        ELSE LET block == kpi_df(source, filtered)
             IN  <<block, blank_df(block), blank_df(block)>>

\* Lines 122-130: what one segment appends to all_reports_list.
SegmentFrames(source, results) ==
    LET filtered == filtered_results(results)
    IN  IF filtered = <<>> THEN <<>>
        ELSE LET block == kpi_df(source, filtered)
             IN  <<block, blank_df(block), blank_df(block)>>

\* DropTrailing that drops one frame only.
DropTrailingOne(reports) ==
    IF reports # <<>> THEN SubSeq(reports, 1, Len(reports) - 1) ELSE reports

\* Lines 131-132: all_reports_list[:-2] when the list is not empty.
DropTrailing(reports) ==
    IF reports # <<>> THEN SubSeq(reports, 1, Len(reports) - 2) ELSE reports

-----------------------------------------------------------------------------
(* Consolidation: src/app.py line 138 *)

RECURSIVE Flatten(_)
Flatten(ss) == IF ss = <<>> THEN <<>> ELSE Head(ss) \o Flatten(Tail(ss))

ColumnSet(frame) == {frame.columns[i] : i \in DOMAIN frame.columns}

\* A column of a frame has a numeric dtype when every cell is a number or NaN;
\* one string cell makes it an object column.
IsNumericColumn(frame, c) ==
    \A i \in DOMAIN frame.rows : frame.rows[i].cells[c].k \in {"num", "nan"}

\* pd.concat(frames, ignore_index=True): the columns are the union in order of
\* first appearance, the rows follow each other, a cell of a column the frame
\* does not have is NaN.
concat(frames) ==
    LET columns == unique(Flatten([i \in DOMAIN frames |-> frames[i].columns]))
        cset    == {columns[i] : i \in DOMAIN columns}
        Widen(frame) ==
            [i \in DOMAIN frame.rows |->
                [frame.rows[i] EXCEPT !.cells =
                    [c \in cset |-> IF c \in ColumnSet(frame)
                                    THEN frame.rows[i].cells[c] ELSE NaN]]]
    IN  [columns |-> columns,
         rows |-> Flatten([i \in DOMAIN frames |-> Widen(frames[i])])]

\* round(x, 1) on one number: the nearest multiple of 1/10, a tie going to the
\* even one (numpy's rounding).
round1(v) ==
    IF ~IsNum(v) THEN v
    ELSE LET q == (10 * v.n) \div v.d
             r == (10 * v.n) % v.d
             up == 2 * r > v.d \/ (2 * r = v.d /\ q % 2 = 1)
         IN  Rat(IF up THEN q + 1 ELSE q, 10)

\* DataFrame.round(1): the columns of numeric dtype are rounded, every other
\* column is returned as it is.
round_frame(frame) ==
    LET cset == ColumnSet(frame)
    IN  [frame EXCEPT !.rows =
            [i \in DOMAIN frame.rows |->
                [frame.rows[i] EXCEPT !.cells =
                    [c \in cset |-> IF IsNumericColumn(frame, c)
                                    THEN round1(frame.rows[i].cells[c])
                                    ELSE frame.rows[i].cells[c]]]]]

\* Line 138.
FinalReport(reports) == round_frame(concat(reports))

-----------------------------------------------------------------------------
(* Inputs *)

\* One row of the uploaded table; a column the table does not have is never
\* read, whatever the row holds for it.
Row(dt, month, source, q, called, connected, attempt, connect) ==
    [LeadCreateDateTime |-> dt, LeadCreateMonth |-> month,
     Opportunity_Source |-> source, isQualified |-> q,
     is_Lead_Called |-> called, is_Lead_Connected |-> connected,
     TimeDiffLeadAttempt_hours |-> attempt, TimeDiffLeadConnect_hours |-> connect]

\* Creation times: one in each configured month (the June ones on the cutoff
\* day and on the day after it), and one in June of another year.
Dates ==
    {Timestamp(2025, 4, 30), Timestamp(2025, 5, 15), Timestamp(2025, 6, 19),
     Timestamp(2025, 6, 20), Timestamp(2024, 6, 10)}

\* Source labels; a label may spell the sentinel.
Labels == {Overall, <<"W", "A">>, <<"W", "e", "b">>}

MonthLabel == Txt(<<"2", "0", "2", "5">>)

\* A lead nobody worked on, and a qualified lead that was called after 10.25
\* hours and connected after 30 hours.
ColdLead(dt, source) == Row(dt, MonthLabel, source, 0, 0, 0, NaN, NaN)
WorkedLead(dt, source) == Row(dt, MonthLabel, source, 1, 1, 1, Rat(41, 4), Whole(30))

\* The worked lead at every creation time and under every label, and one cold
\* lead.
LeadRows ==
    {WorkedLead(dt, Txt(l)) : dt \in Dates, l \in Labels}
        \cup {ColdLead(Timestamp(2025, 4, 30), Txt(<<"W", "e", "b">>))}

\* Rows with one of the three cells of line 95 unusable.
DefectiveRows ==
    {WorkedLead(NotADate, Txt(<<"W", "e", "b">>)),
     WorkedLead(Timestamp(2025, 4, 30), NA),
     [WorkedLead(Timestamp(2025, 4, 30), Txt(<<"W", "e", "b">>))
         EXCEPT !.LeadCreateMonth = NA]}

\* Rows of the tables that lack a column: one inside a configured period, one
\* outside all of them.
ShapeRows ==
    {WorkedLead(Timestamp(2025, 4, 30), Txt(<<"W", "e", "b">>)),
     WorkedLead(Timestamp(2024, 6, 10), Txt(<<"W", "e", "b">>))}

\* Rows of a subset handed to calculate_kpis directly: every combination of
\* the three flags with hours that are missing, exactly 24, or more.
KpiRows ==
    {Row(Timestamp(2025, 4, 30), MonthLabel, Txt(<<"W", "e", "b">>),
         q, called, connected, attempt, connect) :
        q \in {0, 1}, called \in {0, 1}, connected \in {0, 1},
        attempt \in {NaN, Whole(24), Whole(30)}, connect \in {NaN, Whole(30)}}

Tables(rows) == UNION {[1..n -> rows] : n \in 0..MaxRows}

NoFrame   == [columns |-> <<>>, rows |-> <<>>]
NoOutcome == [kind |-> "none", text |-> ""]
Untouched == [authorized |-> FALSE, cleared |-> FALSE, updated |-> FALSE]

-----------------------------------------------------------------------------
(* The button handler: src/app.py lines 80-155 *)

InitLocals ==
    /\ df = <<>>
    /\ sources_to_analyze = <<>>
    /\ src_i = 0
    /\ monthly_kpis_for_source = <<>>
    /\ df_periods = <<>>
    /\ all_reports_list = <<>>
    /\ final_report = NoFrame
    /\ sheet = Untouched
    /\ outcome = NoOutcome
    /\ kpis = <<>>

\* A file has been uploaded and the button is pressed.
Init ==
    /\ \/ cols = RawColumns /\ raw \in Tables(LeadRows \cup DefectiveRows)
       \/ cols \in (SUBSET RawColumns) \ {RawColumns} /\ raw \in Tables(ShapeRows)
    /\ pc = "step1"
    /\ sub_df = <<>>
    /\ InitLocals

Fail(text) ==
    /\ outcome' = [kind |-> "error", text |-> text]
    /\ pc' = "done"

\* Lines 86-96: the data is read and prepared.
PrepareData ==
    /\ pc = "step1"
    /\ PrepareRaises(Renamed(cols)) = ""
    /\ \E keeps_na \in BOOLEAN : df' = Prepared(raw, keeps_na)
    /\ pc' = "step2"
    /\ UNCHANGED <<cols, raw, sources_to_analyze, src_i, monthly_kpis_for_source,
                   df_periods, all_reports_list, final_report, sheet, outcome,
                   sub_df, kpis>>

\* Lines 93-95 raise KeyError; line 152 reports it.
PrepareKeyError ==
    /\ pc = "step1"
    /\ PrepareRaises(Renamed(cols)) # ""
    /\ Fail(PrepareRaises(Renamed(cols)))
    /\ UNCHANGED <<cols, raw, df, sources_to_analyze, src_i,
                   monthly_kpis_for_source, df_periods, all_reports_list,
                   final_report, sheet, sub_df, kpis>>

\* Lines 100-111.
BeginSegments ==
    /\ pc = "step2"
    /\ sources_to_analyze' = SourcesToAnalyze(df)
    /\ all_reports_list' = <<>>
    /\ src_i' = 1
    /\ pc' = "loop"
    /\ UNCHANGED <<cols, raw, df, monthly_kpis_for_source, df_periods,
                   final_report, sheet, outcome, sub_df, kpis>>

\* The index of the first period whose calculate_kpis call raises, 0 if none.
FirstRaising(results) ==
    LET bad == {i \in DOMAIN results : results[i].result.raised # ""}
    IN  IF bad = {} THEN 0 ELSE CHOOSE i \in bad : \A j \in bad : i <= j

\* Lines 112-130: one iteration of the loop over the segments.
ProcessSegment ==
    /\ pc = "loop"
    /\ src_i <= Len(sources_to_analyze)
    /\ LET source  == sources_to_analyze[src_i]
           results == SegmentResults(df, source, Renamed(cols))
       IN  /\ FirstRaising(results) = 0
           /\ monthly_kpis_for_source' =
                  [i \in DOMAIN results |->
                      [name |-> results[i].name, kpis |-> results[i].result.kpis]]
           /\ df_periods' = [i \in DOMAIN results |-> results[i].df_period]
           /\ all_reports_list' = all_reports_list \o SegmentFrames(source, results)
    /\ src_i' = src_i + 1
    /\ UNCHANGED <<cols, raw, pc, df, sources_to_analyze, final_report, sheet,
                   outcome, sub_df, kpis>>

\* A calculate_kpis call of the iteration raises KeyError (line 121); line 152
\* reports it.
SegmentKeyError ==
    /\ pc = "loop"
    /\ src_i <= Len(sources_to_analyze)
    /\ LET source  == sources_to_analyze[src_i]
           results == SegmentResults(df, source, Renamed(cols))
           k       == FirstRaising(results)
       IN  /\ k # 0
           /\ monthly_kpis_for_source' =
                  [i \in 1..(k - 1) |->
                      [name |-> results[i].name, kpis |-> results[i].result.kpis]]
           /\ df_periods' = [i \in 1..k |-> results[i].df_period]
           /\ Fail(results[k].result.raised)
    /\ UNCHANGED <<cols, raw, df, sources_to_analyze, src_i, all_reports_list,
                   final_report, sheet, sub_df, kpis>>

\* Lines 131-133: the loop is over.
FinishSegments ==
    /\ pc = "loop"
    /\ src_i > Len(sources_to_analyze)
    /\ all_reports_list' = DropTrailing(all_reports_list)
    /\ pc' = "step3"
    /\ UNCHANGED <<cols, raw, df, sources_to_analyze, src_i,
                   monthly_kpis_for_source, df_periods, final_report, sheet,
                   outcome, sub_df, kpis>>

\* Lines 150-151.
NoData ==
    /\ pc = "step3"
    /\ all_reports_list = <<>>
    /\ outcome' = [kind |-> "no_data", text |-> ""]
    /\ pc' = "done"
    /\ UNCHANGED <<cols, raw, df, sources_to_analyze, src_i,
                   monthly_kpis_for_source, df_periods, all_reports_list,
                   final_report, sheet, sub_df, kpis>>

\* Lines 137-138.
BuildReport ==
    /\ pc = "step3"
    /\ all_reports_list # <<>>
    /\ final_report' = FinalReport(all_reports_list)
    /\ pc' = "authenticate"
    /\ UNCHANGED <<cols, raw, df, sources_to_analyze, src_i,
                   monthly_kpis_for_source, df_periods, all_reports_list, sheet,
                   outcome, sub_df, kpis>>

\* Line 139, authenticate_gspread returns a client.
Authenticate ==
    /\ pc = "authenticate"
    /\ sheet' = [sheet EXCEPT !.authorized = TRUE]
    /\ pc' = "upload"
    /\ UNCHANGED <<cols, raw, df, sources_to_analyze, src_i,
                   monthly_kpis_for_source, df_periods, all_reports_list,
                   final_report, outcome, sub_df, kpis>>

\* Line 139, authenticate_gspread returns None (lines 24-27 and 35-37): line 140
\* skips the upload.
AuthenticateFails ==
    /\ pc = "authenticate"
    /\ outcome' = [kind |-> "not_authenticated", text |-> ""]
    /\ pc' = "done"
    /\ UNCHANGED <<cols, raw, df, sources_to_analyze, src_i,
                   monthly_kpis_for_source, df_periods, all_reports_list,
                   final_report, sheet, sub_df, kpis>>

\* Lines 141-149.
Upload ==
    /\ pc = "upload"
    /\ sheet' = [sheet EXCEPT !.cleared = TRUE, !.updated = TRUE]
    /\ outcome' = [kind |-> "uploaded", text |-> ""]
    /\ pc' = "done"
    /\ UNCHANGED <<cols, raw, df, sources_to_analyze, src_i,
                   monthly_kpis_for_source, df_periods, all_reports_list,
                   final_report, sub_df, kpis>>

\* A call of lines 141-145 raises: opening the sheet (nothing is cleared) or
\* updating it (it has been cleared); line 152 reports it.
SinkError ==
    /\ pc = "upload"
    /\ \E at \in {"open_by_url", "update"} :
          /\ sheet' = [sheet EXCEPT !.cleared = (at = "update")]
          /\ Fail(at)
    /\ UNCHANGED <<cols, raw, df, sources_to_analyze, src_i,
                   monthly_kpis_for_source, df_periods, all_reports_list,
                   final_report, sub_df, kpis>>

Next ==
    \/ PrepareData
    \/ PrepareKeyError
    \/ BeginSegments
    \/ ProcessSegment
    \/ SegmentKeyError
    \/ FinishSegments
    \/ NoData
    \/ BuildReport
    \/ Authenticate
    \/ AuthenticateFails
    \/ Upload
    \/ SinkError

Spec == Init /\ [][Next]_vars

-----------------------------------------------------------------------------
(* calculate_kpis called on its own *)

InitKpi ==
    /\ cols = RawColumns
    /\ raw = <<>>
    /\ sub_df \in Tables(KpiRows)
    /\ pc = "call"
    /\ InitLocals

CalculateKpis ==
    /\ pc = "call"
    /\ kpis' = calculate_kpis(sub_df, Renamed(cols)).kpis
    /\ pc' = "returned"
    /\ UNCHANGED <<cols, raw, df, sources_to_analyze, src_i,
                   monthly_kpis_for_source, df_periods, all_reports_list,
                   final_report, sheet, outcome, sub_df>>

NextKpi == CalculateKpis

SpecKpi == InitKpi /\ [][NextKpi]_vars

-----------------------------------------------------------------------------
(* What the configuration means, stated on dates and counts *)

\* The creation time t lies in the i-th configured period: April 2025, May
\* 2025, and June 2025 up to and including the 19th.
InPeriodNo(t, i) ==
    CASE i = 1 -> t.y = 2025 /\ t.m = 4
      [] i = 2 -> t.y = 2025 /\ t.m = 5
      [] i = 3 -> t.y = 2025 /\ t.m = 6 /\ t.d <= 19

\* The rows of df that belong to segment key seg.
SegmentIdx(seg) ==
    {i \in DOMAIN df : seg = Overall \/ df[i].Opportunity_Source.s = seg}

\* The rows of df that belong to segment key seg and to the i-th period.
ComboIdx(seg, i) ==
    {r \in SegmentIdx(seg) : InPeriodNo(df[r].LeadCreateDateTime_dt, i)}

\* The names of the periods in which segment key seg has a row, in the
\* configured order.
ExpectedColumns(seg) ==
    LET keep == {i \in DOMAIN periods_to_analyze : ComboIdx(seg, i) # {}}
        names == [i \in DOMAIN periods_to_analyze |-> periods_to_analyze[i].name]
    IN  Pick(names, keep)

EveryComboEmpty ==
    \A r \in DOMAIN df : \A i \in DOMAIN periods_to_analyze :
        ~InPeriodNo(df[r].LeadCreateDateTime_dt, i)

IsBlankRow(row) == row.KPIs = ""
IsBlockStart(row) == row.KPIs = MetricNames[1]
IsBlock(frame) == frame.rows # <<>> /\ ~IsBlankRow(frame.rows[1])

ReportBuilt == final_report # NoFrame
LoopStarted == pc \in {"loop", "step3", "authenticate", "upload"}
                 \/ (pc = "done" /\ PrepareRaises(Renamed(cols)) = "")

\* The blocks of all_reports_list as <<segment key, value columns>>, in order.
BlocksOf(frames) ==
    LET blocks == Where(frames, [i \in DOMAIN frames |-> IsBlock(frames[i])])
    IN  [b \in DOMAIN blocks |-> <<blocks[b].rows[1].Source, blocks[b].columns>>]

-----------------------------------------------------------------------------
(* C1 *)

\* C1: in the final report every run of blank rows is exactly two rows long
\* and lies between two blocks, the report neither starts nor ends with a
\* blank row, two blocks are never adjacent, and there is one block per
\* segment that has a row in some period (a segment without one adds nothing).
C1_TwoBlankRowsBetweenBlocks ==
    ReportBuilt =>
        LET R == final_report.rows
            n == Len(R)
        IN  /\ n > 0 /\ ~IsBlankRow(R[1]) /\ ~IsBlankRow(R[n])
            /\ \A i \in 1..(n - 1) :
                  /\ (~IsBlankRow(R[i]) /\ IsBlankRow(R[i + 1])) =>
                        /\ i + 3 <= n
                        /\ IsBlankRow(R[i + 2])
                        /\ IsBlockStart(R[i + 3])
                  /\ (~IsBlankRow(R[i]) /\ ~IsBlankRow(R[i + 1])) =>
                        ~IsBlockStart(R[i + 1])
            /\ Cardinality({i \in 1..n : IsBlockStart(R[i])}) =
                  Cardinality({j \in DOMAIN sources_to_analyze :
                                  ExpectedColumns(sources_to_analyze[j]) # <<>>})
            /\ Cardinality({i \in 1..n : IsBlankRow(R[i])}) =
                  2 * (Cardinality({i \in 1..n : IsBlockStart(R[i])}) - 1)

\* A report of two blocks was built from a table with three segment keys, one
\* of which has no row in any period.
C1_Witness ==
    /\ ReportBuilt
    /\ Cardinality({i \in DOMAIN final_report.rows :
                       IsBlockStart(final_report.rows[i])}) = 2
    /\ Len(sources_to_analyze) = 3
    /\ \E j \in DOMAIN sources_to_analyze :
          ExpectedColumns(sources_to_analyze[j]) = <<>>

-----------------------------------------------------------------------------
(* C2 *)

\* A row of the uploaded table has its creation time, period label and source
\* label.
IsComplete(r) ==
    r.LeadCreateDateTime.k = "ts" /\ ~r.LeadCreateMonth.na /\ ~r.Opportunity_Source.na

\* C2: no record that misses its creation time, its period label or its
\* source label remains in the prepared table: the prepared table has no more
\* rows than the uploaded table has complete ones.
C2_NoIncompleteRecordRemains ==
    Len(df) <= Cardinality({i \in DOMAIN raw : IsComplete(raw[i])})

-----------------------------------------------------------------------------
(* C3 *)

\* a comes before b in lexicographic order of code points.
LexBefore(a, b) ==
    \E k \in 1..(Len(b)) :
        /\ k <= Len(a) + 1
        /\ \A j \in 1..(k - 1) : a[j] = b[j]
        /\ (k = Len(a) + 1 \/ ord(a[k]) < ord(b[k]))

\* C3: the segment keys are "Overall" followed by the distinct source labels
\* of the prepared table in strictly ascending lexicographic order.
C3_OverallThenSortedLabels ==
    LoopStarted =>
        LET S == sources_to_analyze
        IN  /\ Len(S) >= 1 /\ S[1] = Overall
            /\ {S[j] : j \in 2..Len(S)} =
                  {df[i].Opportunity_Source.s : i \in DOMAIN df}
            /\ \A j \in 2..(Len(S) - 1) : LexBefore(S[j], S[j + 1])

\* The labels first appear in the table in descending order, one of them
\* spelling the sentinel.
C3_Witness ==
    /\ pc = "loop"
    /\ Len(df) = 2
    /\ df[1].Opportunity_Source.s = <<"W", "e", "b">>
    /\ df[2].Opportunity_Source.s = Overall
    /\ sources_to_analyze = <<Overall, Overall, <<"W", "e", "b">> >>

-----------------------------------------------------------------------------
(* C4 *)

\* C4: a run on a table that lacks a required column ends with the error
\* message, and no KPI has been computed and no block collected by then.
C4_MissingColumnIsAnError ==
    (pc = "done" /\ cols # RawColumns) =>
        /\ outcome.kind = "error"
        /\ all_reports_list = <<>>
        /\ \A i \in DOMAIN monthly_kpis_for_source :
              monthly_kpis_for_source[i].kpis = <<>>

-----------------------------------------------------------------------------
(* C5 *)

\* C5: a run whose segment loop finds every (segment, period) combination
\* empty ends with the "no data" message, without a report table and with the
\* sheet untouched; and a run ends with "no data" only then.
C5_NoDataIffEveryComboEmpty ==
    pc = "done" =>
        /\ (PrepareRaises(Renamed(cols)) = "" /\ EveryComboEmpty) =>
              /\ outcome.kind = "no_data"
              /\ final_report = NoFrame
              /\ sheet = Untouched
        /\ outcome.kind = "no_data" =>
              /\ EveryComboEmpty
              /\ final_report = NoFrame
              /\ sheet = Untouched

\* A table with rows, none of them in a configured period, ended in "no data".
C5_Witness ==
    /\ pc = "done"
    /\ outcome.kind = "no_data"
    /\ Len(df) = 2
    /\ cols = RawColumns

-----------------------------------------------------------------------------
(* C6 *)

\* v is num*100/den when den > 0 and 0 otherwise.
IsPercent(v, num, den) ==
    /\ v.k = "num"
    /\ IF den > 0 THEN v.n * den = 100 * num * v.d ELSE v.n = 0

\* C6: calculate_kpis returns no keys for an empty subset, and otherwise its
\* five percentages are numerator*100/denominator, or 0 for a denominator of
\* 0, with the numerators and denominators the metrics are defined by.
C6_PercentagesOfCalculateKpis ==
    pc = "returned" =>
        IF sub_df = <<>> THEN kpis = <<>>
        ELSE LET Q(r)    == r.isQualified = 1
                 QA(r)   == Q(r) /\ r.is_Lead_Called = 1
                 QC(r)   == Q(r) /\ r.is_Lead_Connected = 1
                 A(r)    == r.is_Lead_Called = 1
                 C(r)    == r.is_Lead_Connected = 1
                 Late(h) == h.k = "num" /\ h.n > 24 * h.d
                 AL(r)   == A(r) /\ Late(r.TimeDiffLeadAttempt_hours)
                 CL(r)   == C(r) /\ Late(r.TimeDiffLeadConnect_hours)
                 nQ      == Cardinality({i \in DOMAIN sub_df : Q(sub_df[i])})
                 nQA     == Cardinality({i \in DOMAIN sub_df : QA(sub_df[i])})
                 nQC     == Cardinality({i \in DOMAIN sub_df : QC(sub_df[i])})
                 nA      == Cardinality({i \in DOMAIN sub_df : A(sub_df[i])})
                 nC      == Cardinality({i \in DOMAIN sub_df : C(sub_df[i])})
                 nAL     == Cardinality({i \in DOMAIN sub_df : AL(sub_df[i])})
                 nCL     == Cardinality({i \in DOMAIN sub_df : CL(sub_df[i])})
             IN  /\ [i \in DOMAIN kpis |-> kpis[i].key] = MetricNames
                 /\ IsPercent(Get(kpis, "% Qualified Leads of Leads Created"),
                              nQ, Len(sub_df))
                 /\ IsPercent(Get(kpis, "Attempt% of Qualified leads"), nQA, nQ)
                 /\ IsPercent(Get(kpis, "Connection % of Qualified Leads"), nQC, nQ)
                 /\ IsPercent(Get(kpis, "% Contri. of Leads Attempted after 24 hours"),
                              nAL, nA)
                 /\ IsPercent(Get(kpis, "% Contri. of Leads Contacted after 24 hours"),
                              nCL, nC)

\* calculate_kpis returned for two unqualified leads that were both called,
\* one after exactly 24 hours and one after 30, and never connected.
C6_Witness ==
    /\ pc = "returned"
    /\ Len(sub_df) = 2
    /\ \A i \in 1..2 : sub_df[i].isQualified = 0 /\ sub_df[i].is_Lead_Called = 1
                          /\ sub_df[i].is_Lead_Connected = 0
    /\ sub_df[1].TimeDiffLeadAttempt_hours = Whole(24)
    /\ sub_df[2].TimeDiffLeadAttempt_hours = Whole(30)
    /\ Get(kpis, "% Contri. of Leads Attempted after 24 hours") = Whole(50)
    /\ Get(kpis, "Attempt% of Qualified leads") = Whole(0)

-----------------------------------------------------------------------------
(* C7 *)

\* v is w rounded to one decimal place: a multiple of 1/10 at most 1/20 away.
IsRounded1(v, w) ==
    /\ v.k = "num"
    /\ 10 % v.d = 0
    /\ LET diff == v.n * w.d - w.n * v.d
       IN  20 * (IF diff < 0 THEN -diff ELSE diff) <= v.d * w.d

\* C7: every metric value of the final report is the value calculate_kpis
\* returned, rounded to one decimal place.
C7_ReportValuesRounded ==
    ReportBuilt =>
        LET unrounded == concat(all_reports_list).rows
        IN  \A i \in DOMAIN final_report.rows :
                \A c \in DOMAIN final_report.rows[i].cells :
                    unrounded[i].cells[c].k = "num" =>
                        IsRounded1(final_report.rows[i].cells[c],
                                   unrounded[i].cells[c])

-----------------------------------------------------------------------------
(* C8 *)

\* C8: the subsets selected for the segment just processed are, period by
\* period, the rows of the segment created in April 2025, in May 2025, and in
\* June 2025 on a day up to and including the 19th.
C8_PeriodSubsets ==
    (pc = "loop" /\ src_i > 1) =>
        \A i \in DOMAIN df_periods :
            df_periods[i] = Pick(df, ComboIdx(sources_to_analyze[src_i - 1], i))

\* The segment just processed has a row of 20 June 2025, which was not
\* selected, and a row of 19 June 2025, which was.
C8_Witness ==
    /\ pc = "loop" /\ src_i = 2 /\ Len(df) = 2
    /\ df[1].LeadCreateDateTime_dt = Timestamp(2025, 6, 20)
    /\ df[2].LeadCreateDateTime_dt = Timestamp(2025, 6, 19)
    /\ df_periods[3] = <<df[2]>>

-----------------------------------------------------------------------------
(* C9 *)

\* C9: the blocks collected so far are those of the segments processed so far
\* that have a row in some period, in order, and the value columns of each are
\* the periods in which the segment has a row, in the configured order.
C9_BlockColumns ==
    LoopStarted =>
        LET done == IF pc = "loop" \/ (pc = "done" /\ outcome.kind = "error"
                                          /\ final_report = NoFrame)
                    THEN src_i - 1 ELSE Len(sources_to_analyze)
            Expected(j) == <<sources_to_analyze[j],
                             ExpectedColumns(sources_to_analyze[j])>>
            emitting == {j \in 1..done :
                            ExpectedColumns(sources_to_analyze[j]) # <<>>}
        IN  BlocksOf(all_reports_list) =
                Pick([j \in 1..done |-> Expected(j)], emitting)

\* The loop is over with three blocks: the Overall block has the columns April
\* and June (no May), the blocks of the two sources have one column each.
C9_Witness ==
    /\ pc = "step3"
    /\ Len(BlocksOf(all_reports_list)) = 3
    /\ BlocksOf(all_reports_list)[1][2] = <<"April", "June MTD (till 19th)">>
    /\ BlocksOf(all_reports_list)[2][2] = <<"June MTD (till 19th)">>
    /\ BlocksOf(all_reports_list)[3][2] = <<"April">>

-----------------------------------------------------------------------------
(* C10 *)

\* The "# of Leads Created (Salesforce)" value of a block in period column c,
\* 0 when the block has no such column.
Created(frame, c) ==
    IF c \in ColumnSet(frame) THEN frame.rows[1].cells[c].n ELSE 0

RECURSIVE SumCreated(_, _)
SumCreated(frames, c) ==
    IF frames = <<>> THEN 0
    ELSE Created(Head(frames), c) + SumCreated(Tail(frames), c)

\* C10: when the loop is over and a block was collected, the first block is
\* the Overall block, its columns include those of every other block, and in
\* every period its number of leads created is the sum of that number over
\* the blocks of the source segments. Stated for the uploaded tables whose
\* rows are all complete, so that df is the uploaded table itself.
C10_SourcesPartitionOverall ==
    (/\ pc = "step3"
     /\ all_reports_list # <<>>
     /\ \A i \in DOMAIN raw : IsComplete(raw[i])) =>
        LET blocks == Where(all_reports_list,
                            [i \in DOMAIN all_reports_list |->
                                IsBlock(all_reports_list[i])])
        IN  /\ blocks[1].rows[1].Source = Overall
            /\ \A b \in 2..Len(blocks) :
                  ColumnSet(blocks[b]) \subseteq ColumnSet(blocks[1])
            /\ \A c \in PeriodNames :
                  Created(blocks[1], c) = SumCreated(Tail(blocks), c)

====
